---- MODULE Spec2Model ----
(***************************************************************************)
(* Model of the INWX provider of external-dns-inwx-webhook:                *)
(*   - getZone and getRecIDs, the two pure helpers of the provider;        *)
(*   - MockClientWrapper, the in-memory backend (db, idToZone);            *)
(*   - INWXProvider.Records and INWXProvider.ApplyChanges, each modelled   *)
(*     as one action that runs the whole call against the backend and      *)
(*     records the backend calls it made, in order.                        *)
(* Strings that the code inspects by character (DNS names, zone names,     *)
(* relative names) are sequences of one-character strings; record types    *)
(* and contents, which the code only compares, are plain strings.          *)
(***************************************************************************)
EXTENDS Integers, Sequences, FiniteSets, TLC

VARIABLES db, idToZone, hist, fn

vars == <<db, idToZone, hist, fn>>

(***************************************************************************)
(* Strings                                                                 *)
(***************************************************************************)
Dot == <<".">>

\* fmt.Sprintf("%s.%s", a, b)
SprintfDot(a, b) == a \o Dot \o b

\* strings.HasSuffix(s, suffix)
HasSuffix(s, suffix) ==
    /\ Len(suffix) <= Len(s)
    /\ SubSeq(s, Len(s) - Len(suffix) + 1, Len(s)) = suffix

\* strings.TrimSuffix(s, suffix)
TrimSuffix(s, suffix) ==
    IF HasSuffix(s, suffix) THEN SubSeq(s, 1, Len(s) - Len(suffix)) ELSE s

\* max over naturals, as the builtin max of Go
Max2(a, b) == IF a >= b THEN a ELSE b

Range(s) == {s[i] : i \in 1..Len(s)}

\* all sequences over S of length lo..hi
SeqsOf(S, lo, hi) == UNION {[1..n -> S] : n \in lo..hi}

\* all orderings of the finite set S
Orderings(S) == {s \in [1..Cardinality(S) -> S] : Range(s) = S}

(***************************************************************************)
(* getZone                                                                 *)
(***************************************************************************)
\* getZone with the length comparison dropped: the last suffix match in
\* iteration order wins
RECURSIVE getZoneLastLoop(_, _, _, _)
getZoneLastLoop(zones, dnsName, i, acc) ==
    IF i > Len(zones) THEN acc
    ELSE getZoneLastLoop(zones, dnsName, i + 1,
            IF HasSuffix(dnsName, zones[i])
            THEN [zone |-> zones[i], err |-> FALSE]
            ELSE acc)

\* the loop of getZone: acc is (matchZoneName, err)
RECURSIVE getZoneLoop(_, _, _, _)
getZoneLoop(zones, dnsName, i, acc) ==
    IF i > Len(zones) THEN acc
    ELSE getZoneLoop(zones, dnsName, i + 1,
            IF HasSuffix(dnsName, zones[i]) /\ Len(zones[i]) > Len(acc.zone)
            THEN [zone |-> zones[i], err |-> FALSE]
            ELSE acc)

getZoneLast(zones, dnsName) ==
    getZoneLastLoop(zones, dnsName, 1, [zone |-> <<>>, err |-> TRUE])

\* getZone(zones, endpoint): only endpoint.DNSName is read
getZone(zones, dnsName) ==
    getZoneLoop(zones, dnsName, 1, [zone |-> <<>>, err |-> TRUE])

(***************************************************************************)
(* getRecIDs                                                               *)
(***************************************************************************)
\* the fully-qualified name getRecIDs derives for a record of the zone
targetDNSName(zone, record) ==
    IF record.Name = <<>> THEN zone ELSE SprintfDot(record.Name, zone)

\* the comparison without ep.RecordType == record.Type
recMatchesAnyType(zone, record, ep, target) ==
    /\ target = record.Content
    /\ targetDNSName(zone, record) = ep.DNSName

\* the match test of getRecIDs
recMatches(zone, record, ep, target) ==
    /\ ep.RecordType = record.Type
    /\ target = record.Content
    /\ targetDNSName(zone, record) = ep.DNSName

\* inner loop of getRecIDs: the identifiers of all records matching target
RECURSIVE scanRecords(_, _, _, _, _)
scanRecords(zone, records, ep, target, k) ==
    IF k > Len(records) THEN <<>>
    ELSE (IF recMatches(zone, records[k], ep, target)
          THEN <<records[k].ID>> ELSE <<>>)
         \o scanRecords(zone, records, ep, target, k + 1)

\* outer loop of getRecIDs
RECURSIVE scanTargets(_, _, _, _)
scanTargets(zone, records, ep, t) ==
    IF t > Len(ep.Targets) THEN <<>>
    ELSE scanRecords(zone, records, ep, ep.Targets[t], 1)
         \o scanTargets(zone, records, ep, t + 1)

\* getRecIDs(zone, records, ep): (recIDs, err); recIDs is nil on error
getRecIDs(zone, records, ep) ==
    LET recIDs == scanTargets(zone, records, ep, 1)
    IN  IF Len(recIDs) # Len(ep.Targets)
        THEN [ids |-> <<>>, err |-> TRUE]
        ELSE [ids |-> recIDs, err |-> FALSE]

(***************************************************************************)
(* MockClientWrapper: db maps a zone to its record list, idToZone maps a   *)
(* record identifier to the zone of the last record created with it.       *)
(* A backend value is the record [db, idToZone].                           *)
(***************************************************************************)
EmptyMap == [k \in {} |-> <<>>]

MapPut(m, k, v) == [x \in DOMAIN m \cup {k} |-> IF x = k THEN v ELSE m[x]]

DeletedID == 0 - 1

\* inwx.NameserverRecord built from a request by createRecord / updateRecord
RecordOf(id, r) ==
    [ID |-> id, Name |-> r.Name, Type |-> r.Type, Content |-> r.Content,
     TTL |-> r.TTL, Priority |-> r.Priority]

\* getRecords without the filter on deleted records
mockGetRecordsUnfiltered(d, domain) ==
    IF domain \notin DOMAIN d
    THEN [recs |-> <<>>, err |-> TRUE]
    ELSE [recs |-> d[domain], err |-> FALSE]

\* MockClientWrapper.getRecords
mockGetRecords(d, domain) ==
    IF domain \notin DOMAIN d
    THEN [recs |-> <<>>, err |-> TRUE]
    ELSE [recs |-> SelectSeq(d[domain], LAMBDA rec : rec.ID # DeletedID),
          err |-> FALSE]

\* MockClientWrapper.createRecord
mockCreateRecord(b, r) ==
    IF r.Domain \notin DOMAIN b.db
    THEN [b |-> b, status |-> "err"]
    ELSE LET id == Len(b.db[r.Domain])
         IN  [b |-> [db |-> [b.db EXCEPT ![r.Domain] = Append(@, RecordOf(id, r))],
                     idToZone |-> MapPut(b.idToZone, id, r.Domain)],
              status |-> "ok"]

\* MockClientWrapper.updateRecord; a negative recID indexes out of range
mockUpdateRecord(b, recID, r) ==
    IF r.Domain \notin DOMAIN b.db THEN [b |-> b, status |-> "err"]
    ELSE IF recID >= Len(b.db[r.Domain]) THEN [b |-> b, status |-> "err"]
    ELSE IF recID < 0 THEN [b |-> b, status |-> "panic"]
    ELSE IF b.db[r.Domain][recID + 1].ID = DeletedID THEN [b |-> b, status |-> "err"]
    ELSE [b |-> [b EXCEPT !.db[r.Domain][recID + 1] = RecordOf(recID, r)],
          status |-> "ok"]

\* MockClientWrapper.deleteRecord
mockDeleteRecord(b, recID) ==
    IF recID \notin DOMAIN b.idToZone THEN [b |-> b, status |-> "err"]
    ELSE LET zone == b.idToZone[recID]
         IN  IF zone \notin DOMAIN b.db THEN [b |-> b, status |-> "err"]
             ELSE IF recID >= Len(b.db[zone]) THEN [b |-> b, status |-> "err"]
             ELSE IF recID < 0 THEN [b |-> b, status |-> "panic"]
             ELSE IF b.db[zone][recID + 1].ID = DeletedID
                  THEN [b |-> b, status |-> "err"]
             ELSE [b |-> [b EXCEPT !.db[zone][recID + 1].ID = DeletedID],
                   status |-> "ok"]

(***************************************************************************)
(* AbstractClientWrapper as the provider sees it during one call.  A run   *)
(* is the record                                                           *)
(*   [b      backend, F  ordinals of the backend calls that fail,          *)
(*    n      backend calls made so far, log  those calls in order,         *)
(*    errs   the errs slice of ApplyChanges, cache  recordsCache,          *)
(*    loc    the getRecIDs calls made so far and what they returned,       *)
(*    panic  a run-time panic was raised].                                 *)
(* The backend behaves as MockClientWrapper, except that the calls whose   *)
(* ordinal is in F return an error and change nothing, as a call of        *)
(* ClientWrapper does when the remote API fails.                           *)
(* A log entry carries the position of the provider that made the call:    *)
(* ph (phase), ix (index of the endpoint or pair, from 1), j (position     *)
(* within the endpoint, from 0).                                           *)
(***************************************************************************)
NoID == 0 - 2

NoReq == [Domain |-> <<>>, Name |-> <<>>, Type |-> "", TTL |-> 0,
          Content |-> "", Priority |-> 0]

NewRun(b, F) ==
    [b |-> b, F |-> F, n |-> 0, log |-> <<>>, errs |-> <<>>,
     cache |-> EmptyMap, loc |-> <<>>, panic |-> FALSE]

Injected(st) == (st.n + 1) \in st.F

Logged(st, op, ph, ix, j, zone, id, req, ok) ==
    [st EXCEPT !.n = @ + 1,
               !.log = Append(@, [op |-> op, ph |-> ph, ix |-> ix, j |-> j,
                                  zone |-> zone, id |-> id, req |-> req,
                                  ok |-> ok])]

\* errs = append(errs, err)
AddErr(st, kind, ph, ix, j) ==
    [st EXCEPT !.errs = Append(@, [kind |-> kind, ph |-> ph, ix |-> ix, j |-> j])]

\* recIDs, err := getRecIDs(zone, recordsCache[zone], ep); if err != nil { errs = ... }
Located(st, r, ph, ix) ==
    LET s1 == [st EXCEPT !.loc = Append(@, [ph |-> ph, ix |-> ix, ok |-> ~r.err,
                                            ids |-> r.ids, cache |-> st.cache])]
    IN  IF r.err THEN AddErr(s1, "locator", ph, ix, 0) ELSE s1

\* a backend call that mutates: outcome of the mock unless the call is injected
Mutate(st, r, op, ph, ix, j, zone, id, req) ==
    LET out == IF Injected(st) THEN [b |-> st.b, status |-> "err"] ELSE r
        s1  == Logged(st, op, ph, ix, j, zone, id, req, out.status = "ok")
    IN  [st |-> [s1 EXCEPT !.b = out.b, !.panic = (out.status = "panic")],
         ok |-> out.status = "ok"]

clientLogin(st) ==
    [st |-> Logged(st, "login", "session", 0, 0, <<>>, NoID, NoReq, ~Injected(st)),
     ok |-> ~Injected(st)]

clientLogout(st) ==
    [st |-> Logged(st, "logout", "session", 0, 0, <<>>, NoID, NoReq, ~Injected(st)),
     ok |-> ~Injected(st)]

\* zorder: the order in which the backend lists its zones
clientGetZones(st, zorder) ==
    [st |-> Logged(st, "getZones", "session", 0, 0, <<>>, NoID, NoReq, ~Injected(st)),
     ok |-> ~Injected(st),
     zones |-> IF Injected(st) THEN <<>> ELSE zorder]

clientGetRecords(st, zone, ph, ix) ==
    LET r == IF Injected(st) THEN [recs |-> <<>>, err |-> TRUE]
             ELSE mockGetRecords(st.b.db, zone)
    IN  [st |-> Logged(st, "getRecords", ph, ix, 0, zone, NoID, NoReq, ~r.err),
         ok |-> ~r.err, recs |-> r.recs]

clientCreateRecord(st, req, ph, ix, j) ==
    Mutate(st, mockCreateRecord(st.b, req), "createRecord", ph, ix, j,
           req.Domain, NoID, req)

clientUpdateRecord(st, recID, req, ph, ix, j) ==
    Mutate(st, mockUpdateRecord(st.b, recID, req), "updateRecord", ph, ix, j,
           req.Domain, recID, req)

clientDeleteRecord(st, recID, ph, ix, j) ==
    Mutate(st, mockDeleteRecord(st.b, recID), "deleteRecord", ph, ix, j,
           <<>>, recID, NoReq)

(***************************************************************************)
(* INWXProvider.Records                                                    *)
(***************************************************************************)
\* endpoint.NewEndpointWithTTL(name, type, ttl, content)
NewEndpointWithTTL(name, type, ttl, target) ==
    [DNSName |-> name, RecordType |-> type, RecordTTL |-> ttl,
     Targets |-> <<target>>]

\* the inner loop of Records: one endpoint per record of the snapshot
RECURSIVE flattenRecords(_, _, _)
flattenRecords(zone, records, k) ==
    IF k > Len(records) THEN <<>>
    ELSE <<NewEndpointWithTTL(SprintfDot(records[k].Name, zone), records[k].Type,
                              records[k].TTL, records[k].Content)>>
         \o flattenRecords(zone, records, k + 1)

\* the zone loop going on to the next zone when getRecords fails
RECURSIVE recordsLoopSkipFailed(_, _, _)
recordsLoopSkipFailed(acc, zones, i) ==
    IF i > Len(zones) THEN acc
    ELSE LET g == clientGetRecords(acc.st, zones[i], "list", i)
         IN  recordsLoopSkipFailed(
                [st |-> g.st,
                 endpoints |-> IF ~g.ok THEN acc.endpoints
                               ELSE acc.endpoints \o flattenRecords(zones[i], g.recs, 1),
                 failed |-> FALSE],
                zones, i + 1)

\* the outer loop of Records; acc is [st, endpoints, failed]
RECURSIVE recordsLoop(_, _, _)
recordsLoop(acc, zones, i) ==
    IF i > Len(zones) \/ acc.failed THEN acc
    ELSE LET g == clientGetRecords(acc.st, zones[i], "list", i)
         IN  recordsLoop(
                IF ~g.ok
                THEN [st |-> g.st, endpoints |-> <<>>, failed |-> TRUE]
                ELSE [st |-> g.st,
                      endpoints |-> acc.endpoints \o flattenRecords(zones[i], g.recs, 1),
                      failed |-> FALSE],
                zones, i + 1)

\* the deferred logout with its error returned as the error of the call
DeferredSurfacing(st, kind, count, endpoints) ==
    LET l == clientLogout(st)
    IN  [st |-> l.st, kind |-> IF l.ok THEN kind ELSE "err",
         count |-> IF l.ok THEN count ELSE 0,
         endpoints |-> IF l.ok THEN endpoints ELSE <<>>]

\* the deferred logout: its error is logged, the result of the call is kept
Deferred(st, kind, count, endpoints) ==
    [st |-> clientLogout(st).st, kind |-> kind, count |-> count,
     endpoints |-> endpoints]

\* Records(ctx): [st, kind, count, endpoints]; kind is "ok" or "err"
Records(b, F, zorder) ==
    LET l == clientLogin(NewRun(b, F))
    IN  IF ~l.ok THEN [st |-> l.st, kind |-> "err", count |-> 0, endpoints |-> <<>>]
        ELSE LET z == clientGetZones(l.st, zorder)
             IN  IF ~z.ok THEN Deferred(z.st, "err", 0, <<>>)
                 ELSE LET r == recordsLoop([st |-> z.st, endpoints |-> <<>>,
                                            failed |-> FALSE], z.zones, 1)
                      IN  IF r.failed THEN Deferred(r.st, "err", 0, <<>>)
                          ELSE Deferred(r.st, "ok", 0, r.endpoints)

(***************************************************************************)
(* INWXProvider.ApplyChanges                                               *)
(***************************************************************************)
\* plan.Changes.HasChanges of external-dns
HasChanges(changes) ==
    \/ Len(changes.Create) > 0
    \/ Len(changes.Delete) > 0
    \/ changes.UpdateNew # changes.UpdateOld

\* the relative name sent to the backend for an endpoint name in a zone
relativeName(dnsName, zone) ==
    IF dnsName = zone THEN <<>> ELSE TrimSuffix(dnsName, Dot \o zone)

Request(zone, name, type, ttl, content) ==
    [Domain |-> zone, Name |-> name, Type |-> type, TTL |-> ttl,
     Content |-> content, Priority |-> 0]

\* the fetch without the test _, ok := recordsCache[zone]
ensureFetched(st, zone, ph, ix) ==
    LET g == clientGetRecords(st, zone, ph, ix)
    IN  IF ~g.ok THEN [st |-> AddErr(g.st, "fetch", ph, ix, 0), ok |-> FALSE]
        ELSE [st |-> [g.st EXCEPT !.cache = MapPut(@, zone, g.recs)], ok |-> TRUE]

\* if _, ok := recordsCache[zone]; !ok { getRecords ... }
\* [st, ok]: ok is FALSE when the fetch failed (the code continues)
ensureCached(st, zone, ph, ix) ==
    IF zone \in DOMAIN st.cache THEN [st |-> st, ok |-> TRUE]
    ELSE LET g == clientGetRecords(st, zone, ph, ix)
         IN  IF ~g.ok THEN [st |-> AddErr(g.st, "fetch", ph, ix, 0), ok |-> FALSE]
             ELSE [st |-> [g.st EXCEPT !.cache = MapPut(@, zone, g.recs)],
                   ok |-> TRUE]

\* the loop over recIDs leaving at the first deleteRecord that fails
RECURSIVE deleteIDsStopOnError(_, _, _, _)
deleteIDsStopOnError(st, recIDs, ix, k) ==
    IF k > Len(recIDs) \/ st.panic THEN st
    ELSE LET d == clientDeleteRecord(st, recIDs[k], "delete", ix, k - 1)
         IN  IF d.ok \/ d.st.panic
             THEN deleteIDsStopOnError(d.st, recIDs, ix, k + 1)
             ELSE AddErr(d.st, "delete", "delete", ix, k - 1)

\* for _, id := range recIDs { deleteRecord(id) }
RECURSIVE deleteIDs(_, _, _, _)
deleteIDs(st, recIDs, ix, k) ==
    IF k > Len(recIDs) \/ st.panic THEN st
    ELSE LET d == clientDeleteRecord(st, recIDs[k], "delete", ix, k - 1)
         IN  deleteIDs(IF d.ok \/ d.st.panic THEN d.st
                       ELSE AddErr(d.st, "delete", "delete", ix, k - 1),
                       recIDs, ix, k + 1)

\* the body of the Delete loop for changes.Delete[ix]
deleteEndpoint(st, zones, ep, ix) ==
    LET z == getZone(zones, ep.DNSName)
    IN  IF z.err THEN AddErr(st, "zone", "delete", ix, 0)
        ELSE LET c == ensureCached(st, z.zone, "delete", ix)
             IN  IF ~c.ok THEN c.st
                 ELSE LET r == getRecIDs(z.zone, c.st.cache[z.zone], ep)
                      IN  deleteIDs(Located(c.st, r, "delete", ix), r.ids, ix, 1)

RECURSIVE deletePhase(_, _, _, _)
deletePhase(st, zones, eps, ix) ==
    IF ix > Len(eps) \/ st.panic THEN st
    ELSE deletePhase(deleteEndpoint(st, zones, eps[ix], ix), zones, eps, ix + 1)

\* for _, target := range ep.Targets { createRecord(...) }
RECURSIVE createTargets(_, _, _, _, _)
createTargets(st, zone, ep, ix, k) ==
    IF k > Len(ep.Targets) \/ st.panic THEN st
    ELSE LET rec == Request(zone, relativeName(ep.DNSName, zone), ep.RecordType,
                            ep.RecordTTL, ep.Targets[k])
             c   == clientCreateRecord(st, rec, "create", ix, k - 1)
         IN  createTargets(IF c.ok \/ c.st.panic THEN c.st
                           ELSE AddErr(c.st, "create", "create", ix, k - 1),
                           zone, ep, ix, k + 1)

\* the body of the Create loop for changes.Create[ix]
createEndpoint(st, zones, ep, ix) ==
    LET z == getZone(zones, ep.DNSName)
    IN  IF z.err THEN AddErr(st, "zone", "create", ix, 0)
        ELSE createTargets(st, z.zone, ep, ix, 1)

RECURSIVE createPhase(_, _, _, _)
createPhase(st, zones, eps, ix) ==
    IF ix > Len(eps) \/ st.panic THEN st
    ELSE createPhase(createEndpoint(st, zones, eps[ix], ix), zones, eps, ix + 1)

\* recIDs[j] with j past the end of recIDs: index out of range
Panic(st) == [st EXCEPT !.panic = TRUE]

\* the position loop body with the TTL of newEp in the updateRecord request
updatePositionNewTTL(st, zone, name, oldEp, newEp, recIDs, ix, j) ==
    IF j >= Len(newEp.Targets)
    THEN IF j >= Len(recIDs) THEN Panic(st)
         ELSE LET d == clientDeleteRecord(st, recIDs[j + 1], "update", ix, j)
              IN  IF d.ok \/ d.st.panic THEN d.st
                  ELSE AddErr(d.st, "delete", "update", ix, j)
    ELSE IF j >= Len(oldEp.Targets)
    THEN LET rec == Request(zone, name, newEp.RecordType, newEp.RecordTTL,
                            newEp.Targets[j + 1])
             c   == clientCreateRecord(st, rec, "update", ix, j)
         IN  IF c.ok \/ c.st.panic THEN c.st
             ELSE AddErr(c.st, "create", "update", ix, j)
    ELSE IF j >= Len(recIDs) THEN Panic(st)
         ELSE LET rec == Request(zone, name, newEp.RecordType, newEp.RecordTTL,
                                 newEp.Targets[j + 1])
                  u   == clientUpdateRecord(st, recIDs[j + 1], rec, "update", ix, j)
              IN  IF u.ok \/ u.st.panic THEN u.st
                  ELSE AddErr(u.st, "update", "update", ix, j)

\* one iteration of the position loop of the Update phase, j from 0
updatePosition(st, zone, name, oldEp, newEp, recIDs, ix, j) ==
    IF j >= Len(newEp.Targets)
    THEN IF j >= Len(recIDs) THEN Panic(st)
         ELSE LET d == clientDeleteRecord(st, recIDs[j + 1], "update", ix, j)
              IN  IF d.ok \/ d.st.panic THEN d.st
                  ELSE AddErr(d.st, "delete", "update", ix, j)
    ELSE IF j >= Len(oldEp.Targets)
    THEN LET rec == Request(zone, name, newEp.RecordType, newEp.RecordTTL,
                            newEp.Targets[j + 1])
             c   == clientCreateRecord(st, rec, "update", ix, j)
         IN  IF c.ok \/ c.st.panic THEN c.st
             ELSE AddErr(c.st, "create", "update", ix, j)
    ELSE IF j >= Len(recIDs) THEN Panic(st)
         ELSE LET rec == Request(zone, name, newEp.RecordType, oldEp.RecordTTL,
                                 newEp.Targets[j + 1])
                  u   == clientUpdateRecord(st, recIDs[j + 1], rec, "update", ix, j)
              IN  IF u.ok \/ u.st.panic THEN u.st
                  ELSE AddErr(u.st, "update", "update", ix, j)

\* the position loop leaving at the first position that records an error
RECURSIVE updatePositionsStopOnError(_, _, _, _, _, _, _, _)
updatePositionsStopOnError(st, zone, name, oldEp, newEp, recIDs, ix, j) ==
    IF st.panic
       \/ j >= Max2(Max2(Len(oldEp.Targets), Len(newEp.Targets)), Len(recIDs))
    THEN st
    ELSE LET s1 == updatePosition(st, zone, name, oldEp, newEp, recIDs, ix, j)
         IN  IF Len(s1.errs) > Len(st.errs) THEN s1
             ELSE updatePositionsStopOnError(s1, zone, name, oldEp, newEp,
                                             recIDs, ix, j + 1)

\* for j := range max(len(oldEp.Targets), len(newEp.Targets), len(recIDs))
RECURSIVE updatePositions(_, _, _, _, _, _, _, _)
updatePositions(st, zone, name, oldEp, newEp, recIDs, ix, j) ==
    IF st.panic
       \/ j >= Max2(Max2(Len(oldEp.Targets), Len(newEp.Targets)), Len(recIDs))
    THEN st
    ELSE updatePositions(
            updatePosition(st, zone, name, oldEp, newEp, recIDs, ix, j),
            zone, name, oldEp, newEp, recIDs, ix, j + 1)

\* the body of the Update loop for the pair (UpdateOld[ix], UpdateNew[ix])
updatePair(st, zones, oldEp, newEp, ix) ==
    LET z == getZone(zones, oldEp.DNSName)
    IN  IF z.err THEN AddErr(st, "zone", "update", ix, 0)
        ELSE LET c == ensureCached(st, z.zone, "update", ix)
             IN  IF ~c.ok THEN c.st
                 ELSE LET r == getRecIDs(z.zone, c.st.cache[z.zone], oldEp)
                      IN  updatePositions(Located(c.st, r, "update", ix), z.zone,
                                          relativeName(newEp.DNSName, z.zone),
                                          oldEp, newEp, r.ids, ix, 0)

RECURSIVE updatePhase(_, _, _, _, _)
updatePhase(st, zones, olds, news, ix) ==
    IF ix > Len(olds) \/ st.panic THEN st
    ELSE updatePhase(updatePair(st, zones, olds[ix], news[ix], ix),
                     zones, olds, news, ix + 1)

\* recordsCache = map[string]*[]inwx.NameserverRecord{}
freshCache(st) == [st EXCEPT !.cache = EmptyMap]

\* the three phases with the Create loop placed before the Delete loop
runPhasesCreateFirst(st, zones, changes) ==
    LET s1 == createPhase(st, zones, changes.Create, 1)
        s2 == deletePhase(freshCache(s1), zones, changes.Delete, 1)
    IN  updatePhase(freshCache(s2), zones, changes.UpdateOld, changes.UpdateNew, 1)

\* the three phases, from errs := []error{} to the end of the Update loop
runPhases(st, zones, changes) ==
    LET s1 == deletePhase(freshCache(st), zones, changes.Delete, 1)
        s2 == createPhase(s1, zones, changes.Create, 1)
    IN  updatePhase(freshCache(s2), zones, changes.UpdateOld, changes.UpdateNew, 1)

\* ApplyChanges(ctx, changes): [st, kind, count, endpoints]; kind is "ok",
\* "err" (the error of login or getZones), "aggregate" (the error that
\* carries count = len(errs)) or "panic" (the call did not return)
ApplyChanges(b, changes, F, zorder) ==
    IF ~HasChanges(changes)
    THEN [st |-> NewRun(b, F), kind |-> "ok", count |-> 0, endpoints |-> <<>>]
    ELSE LET l == clientLogin(NewRun(b, F))
         IN  IF ~l.ok
             THEN [st |-> l.st, kind |-> "err", count |-> 0, endpoints |-> <<>>]
             ELSE LET z == clientGetZones(l.st, zorder)
                  IN  IF ~z.ok THEN Deferred(z.st, "err", 0, <<>>)
                      ELSE LET r == runPhases(z.st, z.zones, changes)
                           IN  IF r.panic THEN Deferred(r, "panic", 0, <<>>)
                               ELSE IF Len(r.errs) > 0
                               THEN Deferred(r, "aggregate", Len(r.errs), <<>>)
                               ELSE Deferred(r, "ok", 0, <<>>)

(***************************************************************************)
(* Inputs                                                                  *)
(***************************************************************************)
MaxTargets == 2
MaxRecs == 2
MaxCalls == 2
MaxFaultOrdinal == 9

ZoneC == <<"c">>
ZoneSC == <<"s", ".", "c">>
NameAC == <<"a", ".", "c">>
NameGlued == <<"a", "c">>

\* the zones a test creates: c and its subzone s.c
ZoneNames == {ZoneC, ZoneSC}

\* a.c, s.c (the apex of s.c, or s in c) and ac (c is a suffix, not a label)
DNSNames == {NameAC, ZoneSC, NameGlued}
LabelNames == {NameAC, ZoneSC}

Contents == {"x", "y"}

\* records a test creates directly in the mock
SetupRequests ==
    {Request(ZoneC, <<"a">>, tc[1], 1, tc[2]) :
        tc \in {<<"A", "x">>, <<"A", "y">>, <<"TXT", "x">>}}
    \cup {Request(ZoneC, <<"s">>, "A", 1, "x"), Request(ZoneSC, <<>>, "A", 1, "x")}

Endpoint(n, t, ttl, ts) ==
    [DNSName |-> n, RecordType |-> t, RecordTTL |-> ttl, Targets |-> ts]

TargetLists == SeqsOf(Contents, 0, MaxTargets)

\* target lists in which x and y alternate
ShortLists == {ts \in TargetLists : \A i \in 1..(Len(ts) - 1) : ts[i] # ts[i + 1]}
FilledLists == {<<"x">>, <<"x", "y">>}

NoChanges == [Create |-> <<>>, Delete |-> <<>>, UpdateOld |-> <<>>, UpdateNew |-> <<>>]

Changes(dels, cres, pairs) ==
    [Create |-> cres, Delete |-> dels,
     UpdateOld |-> [i \in 1..Len(pairs) |-> pairs[i][1]],
     UpdateNew |-> [i \in 1..Len(pairs) |-> pairs[i][2]]]

\* endpoints of a ChangeSet: previous state has TTL 1, desired state TTL 2
OldEndpoints(names, lists) == {Endpoint(n, "A", 1, ts) : n \in names, ts \in lists}
NewEndpoints(names, lists) ==
    {Endpoint(n, t, 2, ts) : n \in names, t \in {"A"}, ts \in lists}

\* an update pair keeps the DNS name
UpdatePairs(names, olds, news) ==
    {<<o, n>> \in OldEndpoints(names, olds) \X NewEndpoints(names, news) :
        o.DNSName = n.DNSName}

\* ChangeSets with one entry in one partition
SingleChangeSets ==
    {Changes(<<d>>, <<>>, <<>>) : d \in OldEndpoints(DNSNames, TargetLists)}
    \cup {Changes(<<>>, <<c>>, <<>>) : c \in NewEndpoints(DNSNames, TargetLists)}
    \cup {Changes(<<>>, <<>>, <<p>>) :
            p \in UpdatePairs(LabelNames, ShortLists, ShortLists)}

\* ChangeSets with two entries in one partition
DoubleChangeSets ==
    {Changes(<<d1, d2>>, <<>>, <<>>) :
        d1 \in OldEndpoints(LabelNames, FilledLists),
        d2 \in OldEndpoints(LabelNames, FilledLists)}
    \cup {Changes(<<>>, <<c1, c2>>, <<>>) :
            c1 \in NewEndpoints(DNSNames, {<<"x">>}),
            c2 \in NewEndpoints(DNSNames, {<<"y">>})}
    \cup {Changes(<<>>, <<>>, <<p1, p2>>) :
            p1 \in UpdatePairs(LabelNames, {<<"x">>}, {<<"y">>, <<>>}),
            p2 \in UpdatePairs(LabelNames, {<<"x">>, <<"y">>}, {<<"x">>})}

MixDeletes == {<<>>} \cup {<<d>> : d \in OldEndpoints(LabelNames, FilledLists)}
MixCreates == {<<>>} \cup {<<c>> : c \in NewEndpoints({NameGlued, ZoneSC}, {<<"y">>})}
MixUpdates ==
    {<<>>} \cup {<<p>> : p \in UpdatePairs(LabelNames, FilledLists, {<<>>, <<"y">>})}

\* ChangeSets with entries in several partitions
MixChangeSets ==
    {cs \in {Changes(d, c, u) : d \in MixDeletes, c \in MixCreates, u \in MixUpdates} :
        Len(cs.Delete) + Len(cs.Create) + Len(cs.UpdateOld) >= 2}

\* update pairs whose new endpoint changes the record type, and possibly
\* the DNS name, of the old one
RetypedPairs ==
    {<<Endpoint(NameAC, "A", 1, <<"x">>), Endpoint(n, "TXT", 2, ts)>> :
        n \in LabelNames, ts \in {<<"y">>, <<"x", "y">>}}

RetypedChangeSets == {Changes(<<>>, <<>>, <<p>>) : p \in RetypedPairs}

ChangeSets ==
    SingleChangeSets \cup DoubleChangeSets \cup MixChangeSets \cup RetypedChangeSets

\* the ChangeSets applied against a failing backend
FaultChangeSets ==
    {Changes(<<>>, <<>>, <<p>>) :
        p \in UpdatePairs({NameAC}, {<<>>} \cup FilledLists, {<<>>} \cup FilledLists)}
    \cup {Changes(<<d>>, <<c>>, <<p>>) :
            d \in OldEndpoints({NameAC}, {<<"x">>}),
            c \in NewEndpoints({NameGlued, ZoneSC}, {<<"x">>}),
            p \in UpdatePairs({ZoneSC}, FilledLists, FilledLists)}
    \cup {Changes(<<d1, d2>>, <<>>, <<>>) :
            d1 \in OldEndpoints({NameAC}, FilledLists),
            d2 \in OldEndpoints(LabelNames, {<<"x">>})}
    \cup {Changes(<<>>, <<>>, <<p1, p2>>) :
            p1 \in UpdatePairs({NameAC}, {<<"x">>}, {<<"y">>}),
            p2 \in UpdatePairs(LabelNames, {<<"x">>}, {<<"x">>})}

\* an upper bound of the backend calls of one provider call
CallsUpper == 4 + 6 * (MaxTargets + 2)

\* no failure, one failing call, or every call failing from the first call
\* of the phases, or from one of the two calls after it, on
FaultPatterns ==
    {{}} \cup {{k} : k \in 1..MaxFaultOrdinal}
         \cup {k..CallsUpper : k \in 3..5}

ApplyInputs ==
    {<<cs, {}>> : cs \in ChangeSets}
    \cup {<<cs, F>> : cs \in FaultChangeSets, F \in FaultPatterns}

(***************************************************************************)
(* State machine                                                           *)
(*   db, idToZone  the fields of the MockClientWrapper                     *)
(*   hist          the provider calls made so far, oldest first: for each, *)
(*                 its input, the backend before and after it, the backend *)
(*                 calls it made (log), its getRecIDs calls (loc), its     *)
(*                 errs and what it returned                               *)
(*   fn            input and output of a helper applied on its own         *)
(***************************************************************************)
NoFn == [name |-> "none", in |-> <<>>, done |-> FALSE, out |-> <<>>]

Backend == [db |-> db, idToZone |-> idToZone]

TotalRecs == LET RECURSIVE sum(_)
                 sum(S) == IF S = {} THEN 0
                           ELSE LET z == CHOOSE z \in S : TRUE
                                IN  Len(db[z]) + sum(S \ {z})
             IN  sum(DOMAIN db)

Init ==
    /\ db = EmptyMap
    /\ idToZone = EmptyMap
    /\ hist = <<>>
    /\ fn = NoFn

\* MockClientWrapper.CreateZone, called by a test before it uses the provider
CreateZone ==
    \E zone \in ZoneNames :
        /\ hist = <<>>
        /\ zone \notin DOMAIN db
        /\ db' = MapPut(db, zone, <<>>)
        /\ UNCHANGED <<idToZone, hist, fn>>

\* MockClientWrapper.createRecord, called by a test to fill a zone
CreateRecord ==
    \E r \in SetupRequests :
        /\ hist = <<>>
        /\ TotalRecs < MaxRecs
        /\ LET out == mockCreateRecord(Backend, r)
           IN  /\ out.status = "ok"
               /\ db' = out.b.db
               /\ idToZone' = out.b.idToZone
        /\ UNCHANGED <<hist, fn>>

CallRecord(op, changes, F, zorder, out) ==
    [op |-> op, changes |-> changes, F |-> F, zorder |-> zorder,
     before |-> Backend, after |-> out.st.b, log |-> out.st.log,
     errs |-> out.st.errs, loc |-> out.st.loc, kind |-> out.kind, count |-> out.count, endpoints |-> out.endpoints]

Finish(op, changes, F, zorder, out) ==
    /\ db' = out.st.b.db
    /\ idToZone' = out.st.b.idToZone
    /\ hist' = Append(hist, CallRecord(op, changes, F, zorder, out))
    /\ UNCHANGED fn

\* a call of INWXProvider.Records, the first call of the caller
CallRecords ==
    \E F \in FaultPatterns, zorder \in Orderings(DOMAIN db) :
        /\ hist = <<>>
        /\ Len(hist) < MaxCalls
        /\ Finish("Records", NoChanges, F, zorder, Records(Backend, F, zorder))

\* a call of INWXProvider.ApplyChanges; the caller either submits a new
\* ChangeSet or, against the mock alone, the ChangeSet of its previous call
CallApplyChanges ==
    \E in \in IF hist = <<>> THEN ApplyInputs
              ELSE {<<hist[Len(hist)].changes, hist[Len(hist)].F>>},
       zorder \in Orderings(DOMAIN db) :
        /\ Len(hist) < MaxCalls
        /\ hist # <<>> => (hist[Len(hist)].op = "ApplyChanges" /\ in[2] = {})
        /\ Finish("ApplyChanges", in[1], in[2], zorder,
                  ApplyChanges(Backend, in[1], in[2], zorder))

Next == CreateZone \/ CreateRecord \/ CallRecords \/ CallApplyChanges

Spec == Init /\ [][Next]_vars

(***************************************************************************)
(* getZone applied on its own to a list of distinct, non-empty zone names  *)
(* (the backend lists the zones of the account) and a DNS name             *)
(***************************************************************************)
MaxNameLen == 3
MaxZones == 2

NameStrings == SeqsOf({"c", "."}, 1, MaxNameLen)

\* a zone name ends with a label, not with a dot
ZoneStrings == {z \in NameStrings : z[Len(z)] = "c"}

ZoneLists ==
    {zs \in SeqsOf(ZoneStrings, 0, MaxZones) : Cardinality(Range(zs)) = Len(zs)}

InitZone ==
    /\ db = EmptyMap
    /\ idToZone = EmptyMap
    /\ hist = <<>>
    /\ fn \in {[name |-> "getZone", in |-> [zones |-> zs, dnsName |-> n],
                done |-> FALSE, out |-> [zone |-> <<>>, err |-> FALSE]] :
                    zs \in ZoneLists, n \in NameStrings}

ResolveZone ==
    /\ fn.name = "getZone"
    /\ ~fn.done
    /\ fn' = [fn EXCEPT !.done = TRUE, !.out = getZone(fn.in.zones, fn.in.dnsName)]
    /\ UNCHANGED <<db, idToZone, hist>>

NextZone == ResolveZone

SpecZone == InitZone /\ [][NextZone]_vars

(***************************************************************************)
(* getRecIDs applied on its own to a snapshot that getRecords returns for  *)
(* a record list of zone c, and an endpoint                                *)
(***************************************************************************)
MaxSnapshot == 2

\* record lists of a zone of the mock: the record at index i has ID i,
\* or the deleted mark
SlotRecords(i) ==
    {[ID |-> id, Name |-> n, Type |-> t, Content |-> c, TTL |-> 1, Priority |-> 0] :
        id \in {i, DeletedID}, n \in {<<>>, <<"a">>}, t \in {"A", "TXT"},
        c \in Contents}

RecordLists ==
    UNION {{rs \in [1..n -> UNION {SlotRecords(i) : i \in 0..(MaxSnapshot - 1)}] :
                \A i \in 1..n : rs[i] \in SlotRecords(i - 1)} : n \in 0..MaxSnapshot}

LocatorEndpoints ==
    {Endpoint(n, t, 1, ts) : n \in {ZoneC, NameAC}, t \in {"A", "TXT"},
                             ts \in TargetLists}

InitLocator ==
    /\ db = EmptyMap
    /\ idToZone = EmptyMap
    /\ hist = <<>>
    /\ fn \in {[name |-> "getRecIDs",
                in |-> [zone |-> ZoneC,
                        records |-> mockGetRecords(MapPut(EmptyMap, ZoneC, rs), ZoneC).recs,
                        ep |-> ep],
                done |-> FALSE, out |-> [ids |-> <<>>, err |-> FALSE]] :
                    rs \in RecordLists, ep \in LocatorEndpoints}

LocateRecords ==
    /\ fn.name = "getRecIDs"
    /\ ~fn.done
    /\ fn' = [fn EXCEPT !.done = TRUE,
                        !.out = getRecIDs(fn.in.zone, fn.in.records, fn.in.ep)]
    /\ UNCHANGED <<db, idToZone, hist>>

NextLocator == LocateRecords

SpecLocator == InitLocator /\ [][NextLocator]_vars

(***************************************************************************)
(* Properties                                                              *)
(***************************************************************************)
\* z is a suffix of n: n is some prefix of n followed by z
IsSuffixOf(z, n) == \E k \in 0..Len(n) : n = SubSeq(n, 1, k) \o z

\* the fully-qualified name of a record: relative name, a dot and the zone,
\* or the zone alone for a record at the apex
FullName(name, zone) == IF name = <<>> THEN zone ELSE name \o <<".">> \o zone

\* record rec of the zone carries the type and name of ep and content target
IsRecordOf(rec, zone, ep, target) ==
    /\ rec.Type = ep.RecordType
    /\ FullName(rec.Name, zone) = ep.DNSName
    /\ rec.Content = target

LocatorDone == fn.name = "getRecIDs" /\ fn.done

\* C2: when getRecIDs succeeds, the identifiers are as many as the targets
\* and the identifier at position i belongs to a snapshot record with the
\* endpoint's type and name and with content targets[i], for every snapshot
C2_IndexAligned ==
    (LocatorDone /\ ~fn.out.err) =>
        /\ Len(fn.out.ids) = Len(fn.in.ep.Targets)
        /\ \A i \in 1..Len(fn.in.ep.Targets) :
              \E k \in 1..Len(fn.in.records) :
                  /\ fn.in.records[k].ID = fn.out.ids[i]
                  /\ IsRecordOf(fn.in.records[k], fn.in.zone, fn.in.ep,
                                fn.in.ep.Targets[i])

\* C3: getRecIDs fails whenever some target has no record of the endpoint's
\* type and name with that content in the snapshot
C3_FailsOnUnmatchedTarget ==
    (/\ LocatorDone
     /\ \E i \in 1..Len(fn.in.ep.Targets) :
           \A k \in 1..Len(fn.in.records) :
               ~IsRecordOf(fn.in.records[k], fn.in.zone, fn.in.ep,
                           fn.in.ep.Targets[i]))
        => fn.out.err

ZoneDone == fn.name = "getZone" /\ fn.done

SuffixZones == {z \in Range(fn.in.zones) : IsSuffixOf(z, fn.in.dnsName)}

\* C4: getZone returns a zone that is a suffix of the name and is longest
\* among the zones that are suffixes of the name, and it returns the
\* no-matching-zone error exactly when no zone is a suffix of the name
C4_LongestSuffixZone ==
    ZoneDone =>
        /\ fn.out.err <=> SuffixZones = {}
        /\ SuffixZones # {} =>
              /\ fn.out.zone \in SuffixZones
              /\ \A z \in SuffixZones : Len(z) <= Len(fn.out.zone)

\* two zones are suffixes of the name and the longer one, listed first, is returned
C4_Witness ==
    /\ ZoneDone
    /\ Len(fn.in.zones) = 2
    /\ Cardinality(SuffixZones) = 2
    /\ Len(fn.in.zones[1]) > Len(fn.in.zones[2])
    /\ fn.out = [zone |-> fn.in.zones[1], err |-> FALSE]

(***************************************************************************)
(* Properties of the provider calls recorded in hist                       *)
(***************************************************************************)
Mutating == {"createRecord", "updateRecord", "deleteRecord"}

\* the call got past login and getZones
Applied(h) ==
    /\ h.op = "ApplyChanges"
    /\ Len(h.log) >= 2
    /\ h.log[1].op = "login" /\ h.log[1].ok
    /\ h.log[2].op = "getZones" /\ h.log[2].ok

\* some zone of the backend is a suffix of the DNS name
Resolves(h, dnsName) == \E z \in DOMAIN h.before.db : IsSuffixOf(z, dnsName)

\* the mutating calls made at one position of the provider, in order
CallsAt(h, ph, ix) ==
    SelectSeq(h.log, LAMBDA e : e.ph = ph /\ e.ix = ix /\ e.op \in Mutating)

ErrsAt(h, ph, ix) == SelectSeq(h.errs, LAMBDA e : e.ph = ph /\ e.ix = ix)

LocsAt(h, ph, ix) == SelectSeq(h.loc, LAMBDA l : l.ph = ph /\ l.ix = ix)

Longer(a, b) == IF Len(a) >= Len(b) THEN Len(a) ELSE Len(b)

\* C1: once login and getZones succeeded, ApplyChanges attempts every Delete
\* endpoint, every Create target and every update pair and then returns,
\* with success or with the aggregate error; a failure of the Record
\* Locator for an update pair is recorded and the positions of the pair are
\* still processed
C1_AttemptsAllThenReturns ==
    \A k \in 1..Len(hist) :
        LET h == hist[k]
        IN  Applied(h) =>
              /\ h.kind \in {"ok", "aggregate"}
              /\ h.kind = "aggregate" <=> h.errs # <<>>
              /\ \A ix \in 1..Len(h.changes.Delete) :
                    \/ ErrsAt(h, "delete", ix) # <<>>
                    \/ /\ Len(LocsAt(h, "delete", ix)) = 1
                       /\ Len(CallsAt(h, "delete", ix))
                            = Len(h.changes.Delete[ix].Targets)
              /\ \A ix \in 1..Len(h.changes.Create) :
                    \/ ErrsAt(h, "create", ix) # <<>>
                    \/ Len(CallsAt(h, "create", ix))
                         = Len(h.changes.Create[ix].Targets)
              /\ \A ix \in 1..Len(h.changes.UpdateOld) :
                    \/ \E i \in 1..Len(h.errs) :
                          /\ h.errs[i].ph = "update" /\ h.errs[i].ix = ix
                          /\ h.errs[i].kind \in {"zone", "fetch"}
                    \/ /\ Len(LocsAt(h, "update", ix)) = 1
                       /\ ~LocsAt(h, "update", ix)[1].ok =>
                             \E i \in 1..Len(h.errs) :
                                 /\ h.errs[i].ph = "update" /\ h.errs[i].ix = ix
                                 /\ h.errs[i].kind = "locator"
                       /\ Len(CallsAt(h, "update", ix))
                            = Longer(h.changes.UpdateOld[ix].Targets,
                                     h.changes.UpdateNew[ix].Targets)

\* position of a backend call in the order session start, Delete, Create,
\* Update, session end
Rank(e) ==
    IF e.op = "logout" THEN 4
    ELSE IF e.ph = "update" THEN 3
    ELSE IF e.ph = "create" THEN 2
    ELSE IF e.ph = "delete" THEN 1
    ELSE 0

\* C5: the backend calls of ApplyChanges are ordered Delete, Create, Update;
\* whatever failed in the Delete and Create phases, every target of a Create
\* endpoint with a zone is sent to createRecord and the Update phase is
\* entered
C5_PhaseOrder ==
    \A k \in 1..Len(hist) :
        LET h == hist[k]
        IN  Applied(h) =>
              /\ \A p, q \in 1..Len(h.log) :
                    p < q => Rank(h.log[p]) <= Rank(h.log[q])
              /\ \A p \in 1..Len(h.log) :
                    /\ h.log[p].ph = "delete" =>
                          h.log[p].op \in {"getRecords", "deleteRecord"}
                    /\ h.log[p].ph = "create" => h.log[p].op = "createRecord"
              /\ \A ix \in 1..Len(h.changes.Create) :
                    Resolves(h, h.changes.Create[ix].DNSName) =>
                        \A j \in 1..Len(h.changes.Create[ix].Targets) :
                            \E p \in 1..Len(h.log) :
                                /\ h.log[p].op = "createRecord"
                                /\ h.log[p].ph = "create"
                                /\ h.log[p].ix = ix /\ h.log[p].j = j - 1
                                /\ h.log[p].req.Content
                                     = h.changes.Create[ix].Targets[j]
              /\ Len(h.changes.UpdateOld) >= 1 =>
                    IF Resolves(h, h.changes.UpdateOld[1].DNSName)
                    THEN \E p \in 1..Len(h.log) :
                            /\ h.log[p].op = "getRecords"
                            /\ h.log[p].ph = "update" /\ h.log[p].ix = 1
                    ELSE ErrsAt(h, "update", 1) # <<>>

\* a deleteRecord call of the Delete phase failed, and the Create phase and
\* the Update phase still made their calls
C5_Witness ==
    \E k \in 1..Len(hist) :
        /\ Applied(hist[k])
        /\ \E p, q, r \in 1..Len(hist[k].log) :
              /\ hist[k].log[p].op = "deleteRecord"
              /\ hist[k].log[p].ph = "delete" /\ ~hist[k].log[p].ok
              /\ hist[k].log[q].ph = "create" /\ hist[k].log[q].ok
              /\ hist[k].log[r].ph = "update" /\ hist[k].log[r].op \in Mutating

\* C6: for an update pair whose Record Locator call succeeded, with m old
\* and n new targets, the mutating calls of the pair are, in order of
\* position j: updateRecord(recIDs[j]) with content new[j] for j < min(m, n),
\* deleteRecord(recIDs[j]) for n <= j < m, createRecord with content new[j]
\* for m <= j < n, and nothing else, whatever the earlier positions returned
C6_PositionalUpdate ==
    \A k \in 1..Len(hist) :
        LET h == hist[k]
        IN  Applied(h) =>
              \A i \in 1..Len(h.loc) :
                  (h.loc[i].ph = "update" /\ h.loc[i].ok) =>
                      LET ix    == h.loc[i].ix
                          ids   == h.loc[i].ids
                          old   == h.changes.UpdateOld[ix].Targets
                          new   == h.changes.UpdateNew[ix].Targets
                          calls == CallsAt(h, "update", ix)
                      IN  /\ Len(calls) = Longer(old, new)
                          /\ \A j \in 1..Len(calls) :
                                /\ calls[j].j = j - 1
                                /\ (j <= Len(old) /\ j <= Len(new)) =>
                                      /\ calls[j].op = "updateRecord"
                                      /\ calls[j].id = ids[j]
                                      /\ calls[j].req.Content = new[j]
                                /\ (j > Len(new)) =>
                                      /\ calls[j].op = "deleteRecord"
                                      /\ calls[j].id = ids[j]
                                /\ (j > Len(old)) =>
                                      /\ calls[j].op = "createRecord"
                                      /\ calls[j].req.Content = new[j]

\* a pair that shrinks from two targets to one: the update of position 0
\* failed and the delete of position 1 was still issued
C6_Witness ==
    \E k \in 1..Len(hist) :
        /\ Applied(hist[k])
        /\ \E i \in 1..Len(hist[k].loc) :
              /\ hist[k].loc[i].ph = "update" /\ hist[k].loc[i].ok
              /\ Len(hist[k].changes.UpdateOld[hist[k].loc[i].ix].Targets) = 2
              /\ Len(hist[k].changes.UpdateNew[hist[k].loc[i].ix].Targets) = 1
              /\ LET calls == CallsAt(hist[k], "update", hist[k].loc[i].ix)
                 IN  /\ Len(calls) = 2
                     /\ calls[1].op = "updateRecord" /\ ~calls[1].ok
                     /\ calls[2].op = "deleteRecord"

\* the operations of the call that failed: backend calls other than the
\* logout, Record Locator calls, and zone resolutions
FailedCalls(h) == Len(SelectSeq(h.log, LAMBDA e : ~e.ok /\ e.op # "logout"))
FailedLocs(h) == Len(SelectSeq(h.loc, LAMBDA l : ~l.ok))
Unresolved(h, eps) == Len(SelectSeq(eps, LAMBDA ep : ~Resolves(h, ep.DNSName)))
Failures(h) ==
    FailedCalls(h) + FailedLocs(h) + Unresolved(h, h.changes.Delete)
    + Unresolved(h, h.changes.Create) + Unresolved(h, h.changes.UpdateOld)

\* C7: once login and getZones succeeded, ApplyChanges returns success
\* exactly when no zone resolution, fetch, Record Locator call or mutating
\* call failed, and otherwise the aggregate error whose count is the number
\* of failed operations
C7_AggregateCount ==
    \A k \in 1..Len(hist) :
        LET h == hist[k]
        IN  Applied(h) =>
              /\ h.kind = "ok" <=> Failures(h) = 0
              /\ Failures(h) > 0 =>
                    (h.kind = "aggregate" /\ h.count = Failures(h))

\* the result of the provider call h when its logout succeeds
WithGoodLogout(h) ==
    IF h.op = "Records"
    THEN Records(h.before, h.F \ {Len(h.log)}, h.zorder)
    ELSE ApplyChanges(h.before, h.changes, h.F \ {Len(h.log)}, h.zorder)

\* C8: in Records and in ApplyChanges a successful login is the first
\* backend call and is followed by exactly one logout, which is the last
\* backend call, on every exit path; a failed login is followed by no call;
\* and the call returns what it returns when the logout succeeds
C8_SessionBracket ==
    \A k \in 1..Len(hist) :
        LET h == hist[k]
            n == Len(h.log)
        IN  /\ \A p \in 1..n : h.log[p].op = "login" <=> p = 1
            /\ (n >= 1 /\ ~h.log[1].ok) => n = 1
            /\ (n >= 1 /\ h.log[1].ok) =>
                  /\ n >= 2
                  /\ \A p \in 1..n : h.log[p].op = "logout" <=> p = n
                  /\ ~h.log[n].ok =>
                        LET r == WithGoodLogout(h)
                        IN  /\ r.kind = h.kind
                            /\ r.count = h.count
                            /\ r.endpoints = h.endpoints
                            /\ r.st.errs = h.errs

\* a call that mutated the backend returned success although its logout,
\* the last backend call, failed
C8_Witness ==
    \E k \in 1..Len(hist) :
        /\ Len(hist[k].log) >= 4
        /\ hist[k].log[1].ok
        /\ ~hist[k].log[Len(hist[k].log)].ok
        /\ hist[k].log[Len(hist[k].log)].op = "logout"
        /\ hist[k].kind = "ok"
        /\ \E p \in 1..Len(hist[k].log) : hist[k].log[p].op \in Mutating

\* C9: Records returns, for every record of every zone, an endpoint whose
\* DNS name is relative name, dot, zone, and the zone alone when the
\* relative name is empty
C9_RecordsFullNames ==
    \A k \in 1..Len(hist) :
        LET h == hist[k]
        IN  (h.op = "Records" /\ h.kind = "ok") =>
              \A z \in DOMAIN h.before.db :
                  \A i \in 1..Len(h.before.db[z]) :
                      LET rec == h.before.db[z][i]
                      IN  rec.ID # DeletedID =>
                            \E e \in 1..Len(h.endpoints) :
                                /\ h.endpoints[e].DNSName = FullName(rec.Name, z)
                                /\ h.endpoints[e].RecordType = rec.Type
                                /\ h.endpoints[e].Targets = <<rec.Content>>

\* a live record of the backend has the type and name of ep and one of its
\* targets as content
HasRecordOf(b, ep) ==
    \E z \in DOMAIN b.db :
        \E i \in 1..Len(b.db[z]) :
            /\ b.db[z][i].ID # DeletedID
            /\ \E t \in 1..Len(ep.Targets) :
                  IsRecordOf(b.db[z][i], z, ep, ep.Targets[t])

\* h2 applies the ChangeSet of h1 again, on the mock without injected
\* failures, after h1 located and deleted the records of every Delete
\* endpoint and with no record of a Delete endpoint left
ReappliedAfterDelete(h1, h2) ==
    /\ h1.op = "ApplyChanges" /\ h2.op = "ApplyChanges"
    /\ h1.changes = h2.changes
    /\ h1.F = {} /\ h2.F = {}
    /\ Len(h2.changes.Delete) >= 1
    /\ \A ix \in 1..Len(h1.changes.Delete) :
          /\ h1.changes.Delete[ix].Targets # <<>>
          /\ LocsAt(h1, "delete", ix) # <<>>
          /\ LocsAt(h1, "delete", ix)[1].ok
          /\ \A p \in 1..Len(CallsAt(h1, "delete", ix)) :
                CallsAt(h1, "delete", ix)[p].ok
          /\ ~HasRecordOf(h2.before, h2.changes.Delete[ix])

LaterPhases(seq) == SelectSeq(seq, LAMBDA e : e.ph \in {"create", "update"})

WithoutDelete(h) ==
    ApplyChanges(h.before, [h.changes EXCEPT !.Delete = <<>>], h.F, h.zorder)

\* C10: the second application of a ChangeSet whose Delete endpoints were
\* removed by the first records one unresolved-targets failure per Delete
\* endpoint, calls deleteRecord for none of them, and makes in the Create
\* and Update phases the calls, with the outcomes, it makes when the Delete
\* partition is empty
C10_ReapplyAfterDelete ==
    \A k \in 2..Len(hist) :
        LET h1 == hist[k - 1]
            h2 == hist[k]
        IN  ReappliedAfterDelete(h1, h2) =>
              /\ \A ix \in 1..Len(h2.changes.Delete) :
                    /\ Len(ErrsAt(h2, "delete", ix)) = 1
                    /\ ErrsAt(h2, "delete", ix)[1].kind = "locator"
                    /\ CallsAt(h2, "delete", ix) = <<>>
              /\ \A p \in 1..Len(h2.log) : h2.log[p].ph = "delete" =>
                                              h2.log[p].op = "getRecords"
              /\ LET ref == WithoutDelete(h2)
                 IN  /\ LaterPhases(h2.log) = LaterPhases(ref.st.log)
                     /\ LaterPhases(h2.errs) = LaterPhases(ref.st.errs)
                     /\ h2.after = ref.st.b
                     /\ h2.kind = "panic" <=> ref.kind = "panic"

\* the second application of a ChangeSet with a Delete endpoint, whose
\* record the first application deleted, and with Create and Update entries
\* that call the backend
C10_Witness ==
    \E k \in 2..Len(hist) :
        /\ ReappliedAfterDelete(hist[k - 1], hist[k])
        /\ \E p \in 1..Len(hist[k - 1].log) :
              hist[k - 1].log[p].op = "deleteRecord" /\ hist[k - 1].log[p].ok
        /\ \E p, q \in 1..Len(hist[k].log) :
              /\ hist[k].log[p].op = "createRecord" /\ hist[k].log[p].ph = "create"
              /\ hist[k].log[q].op = "updateRecord" /\ hist[k].log[q].ok

(***************************************************************************)
(* Relative names of created records                                       *)
(***************************************************************************)
\* the createRecord requests of a call, sent or refused
CreateCalls(h) == SelectSeq(h.log, LAMBDA e : e.op = "createRecord")

\* the endpoint a createRecord request was built from
CreatedFrom(h, e) ==
    IF e.ph = "create" THEN h.changes.Create[e.ix] ELSE h.changes.UpdateNew[e.ix]

\* C11: the relative name of every createRecord request, joined to the zone
\* of the request by the fully-qualified-name rule, is the DNS name of the
\* Create endpoint, or of the new endpoint of the update pair, the request
\* was built from, for every name the zone is a character suffix of
C11_RelativeNameRoundTrip ==
    \A k \in 1..Len(hist) :
        \A i \in 1..Len(CreateCalls(hist[k])) :
            LET e == CreateCalls(hist[k])[i]
            IN  FullName(e.req.Name, e.req.Domain) = CreatedFrom(hist[k], e).DNSName

(***************************************************************************)
(* The per-phase snapshot cache                                            *)
(***************************************************************************)
\* the endpoint whose zone the provider resolved at position ix of a phase
ResolvedFrom(h, ph, ix) ==
    IF ph = "delete" THEN h.changes.Delete[ix]
    ELSE IF ph = "create" THEN h.changes.Create[ix]
    ELSE h.changes.UpdateOld[ix]

\* the zone the provider worked in when it made the backend call e
ZoneAt(h, e) == getZone(h.zorder, ResolvedFrom(h, e.ph, e.ix).DNSName).zone

\* no getRecords during the Create phase and none, within a phase, for a
\* zone after a mutating call made in that zone
NoFetchAfterMutation(h) ==
    /\ \A i \in 1..Len(h.log) : ~(h.log[i].op = "getRecords" /\ h.log[i].ph = "create")
    /\ \A i \in 1..Len(h.log) :
          \A j \in (i + 1)..Len(h.log) :
              (/\ h.log[i].op \in Mutating
               /\ h.log[j].op = "getRecords"
               /\ h.log[j].ph = h.log[i].ph)
                  => h.log[j].zone # ZoneAt(h, h.log[i])

\* the getRecords calls of one phase for one zone, by position in the log
FetchesOf(h, ph, zone) ==
    {i \in 1..Len(h.log) :
        h.log[i].op = "getRecords" /\ h.log[i].ph = ph /\ h.log[i].zone = zone}

\* C12 as stated: within one ApplyChanges call getRecords is called at most
\* once per zone in the Delete phase and at most once per zone in the Update
\* phase, whatever the outcome of the fetches, never in the Create phase,
\* and never for a zone after a mutating call of the same phase in it
C12_FetchOncePerZone ==
    \A k \in 1..Len(hist) :
        hist[k].op = "ApplyChanges" =>
            /\ NoFetchAfterMutation(hist[k])
            /\ \A ph \in {"delete", "update"}, zone \in DOMAIN hist[k].before.db :
                  Cardinality(FetchesOf(hist[k], ph, zone)) <= 1

\* C12, amended: within one ApplyChanges call a getRecords call that
\* succeeded for a zone is the last getRecords call for that zone in its
\* phase (a fetch that failed is not cached, and the next endpoint of the
\* zone fetches again), getRecords is never called in the Create phase, and
\* never for a zone after a mutating call of the same phase in it
C12_FetchUntilCached ==
    \A k \in 1..Len(hist) :
        hist[k].op = "ApplyChanges" =>
            /\ NoFetchAfterMutation(hist[k])
            /\ \A ph \in {"delete", "update"}, zone \in DOMAIN hist[k].before.db :
                  \A i \in FetchesOf(hist[k], ph, zone) :
                      \A j \in FetchesOf(hist[k], ph, zone) :
                          i < j => ~hist[k].log[i].ok

\* two endpoints of the Delete phase resolve to one zone; its fetch fails
\* for the first and succeeds for the second, whose record is then deleted
C12_Witness ==
    \E k \in 1..Len(hist) :
        LET h == hist[k]
        IN  /\ h.op = "ApplyChanges"
            /\ Len(h.changes.Delete) = 2
            /\ \E zone \in DOMAIN h.before.db :
                  /\ Cardinality(FetchesOf(h, "delete", zone)) = 2
                  /\ \E i \in FetchesOf(h, "delete", zone) :
                        h.log[i].ix = 2 /\ h.log[i].ok
            /\ \E i \in 1..Len(h.log) :
                  h.log[i].op = "deleteRecord" /\ h.log[i].ix = 2 /\ h.log[i].ok

(***************************************************************************)
(* The Delete phase, endpoint by endpoint                                  *)
(***************************************************************************)
\* the deleteRecord calls made for changes.Delete[ix], sent or refused
DeleteCalls(h, ix) ==
    SelectSeq(h.log, LAMBDA e : e.op = "deleteRecord" /\ e.ph = "delete" /\ e.ix = ix)

\* the getRecords call made for changes.Delete[ix] failed
FetchFailedAt(h, ph, ix) ==
    \E i \in 1..Len(h.log) :
        /\ h.log[i].op = "getRecords" /\ h.log[i].ph = ph /\ h.log[i].ix = ix
        /\ ~h.log[i].ok

\* C13: for a Delete endpoint whose zone resolves, a failed snapshot fetch
\* leaves the endpoint without getRecIDs and without deleteRecord; with the
\* snapshot at hand getRecIDs runs once, and deleteRecord is called once
\* for each identifier it returned, in order, whichever of these calls
\* fail, and not at all when it failed; this for every Delete endpoint,
\* whatever happened to the endpoints before it
C13_DeletePerIdentifier ==
    \A k \in 1..Len(hist) :
        LET h == hist[k]
        IN  Applied(h) =>
              \A ix \in 1..Len(h.changes.Delete) :
                  ~getZone(h.zorder, h.changes.Delete[ix].DNSName).err =>
                      IF FetchFailedAt(h, "delete", ix)
                      THEN /\ LocsAt(h, "delete", ix) = <<>>
                           /\ DeleteCalls(h, ix) = <<>>
                      ELSE /\ Len(LocsAt(h, "delete", ix)) = 1
                           /\ LocsAt(h, "delete", ix)[1].ok =>
                                [i \in 1..Len(DeleteCalls(h, ix)) |->
                                    DeleteCalls(h, ix)[i].id]
                                  = LocsAt(h, "delete", ix)[1].ids
                           /\ ~LocsAt(h, "delete", ix)[1].ok =>
                                DeleteCalls(h, ix) = <<>>

\* the first deleteRecord of a Delete endpoint with two identifiers fails,
\* the second is made and succeeds, and so does the one of the next endpoint
C13_Witness ==
    \E k \in 1..Len(hist) :
        LET h == hist[k]
        IN  /\ Applied(h)
            /\ Len(h.changes.Delete) = 2
            /\ Len(DeleteCalls(h, 1)) = 2
            /\ ~DeleteCalls(h, 1)[1].ok
            /\ DeleteCalls(h, 1)[2].ok
            /\ Len(DeleteCalls(h, 2)) = 1
            /\ DeleteCalls(h, 2)[1].ok

(***************************************************************************)
(* The requests of the Update phase                                        *)
(***************************************************************************)
\* the createRecord and updateRecord calls of the Update phase
UpdateRequests(h) ==
    SelectSeq(h.log, LAMBDA e : e.ph = "update" /\ e.op \in {"createRecord", "updateRecord"})

\* C14: in the Update phase an updateRecord request is made for a position
\* of both endpoints and carries the TTL of oldEp with the record type of
\* newEp and newEp.Targets[j]; a createRecord request is made for a
\* position newEp adds and carries the TTL of newEp; every request of the
\* pair goes to the zone resolved from oldEp
C14_UpdateRequestFields ==
    \A k \in 1..Len(hist) :
        \A i \in 1..Len(UpdateRequests(hist[k])) :
            LET e     == UpdateRequests(hist[k])[i]
                oldEp == hist[k].changes.UpdateOld[e.ix]
                newEp == hist[k].changes.UpdateNew[e.ix]
            IN  /\ e.req.Domain = getZone(hist[k].zorder, oldEp.DNSName).zone
                /\ e.j < Len(newEp.Targets)
                /\ e.req.Type = newEp.RecordType
                /\ e.req.Content = newEp.Targets[e.j + 1]
                /\ e.op = "updateRecord" =>
                      e.j < Len(oldEp.Targets) /\ e.req.TTL = oldEp.RecordTTL
                /\ e.op = "createRecord" =>
                      e.j >= Len(oldEp.Targets) /\ e.req.TTL = newEp.RecordTTL

\* a pair whose new endpoint has another type, TTL and name than the old
\* one, the new name lying in another zone: position 0 is updated and
\* position 1 created, both in the zone of the old endpoint
C14_Witness ==
    \E k \in 1..Len(hist) :
        LET h == hist[k]
        IN  /\ Len(UpdateRequests(h)) = 2
            /\ UpdateRequests(h)[1].op = "updateRecord" /\ UpdateRequests(h)[1].ok
            /\ UpdateRequests(h)[2].op = "createRecord" /\ UpdateRequests(h)[2].ok
            /\ h.changes.UpdateOld[1].RecordType # h.changes.UpdateNew[1].RecordType
            /\ h.changes.UpdateOld[1].RecordTTL # h.changes.UpdateNew[1].RecordTTL
            /\ getZone(h.zorder, h.changes.UpdateOld[1].DNSName).zone
                 # getZone(h.zorder, h.changes.UpdateNew[1].DNSName).zone

(***************************************************************************)
(* MockClientWrapper driven on its own, as a test does: zones and records  *)
(* are created, records the mock lists are updated and deleted by the      *)
(* identifier it lists them with, and Records is called on the result      *)
(***************************************************************************)
MaxMockRecs == 3

\* a record getRecords(zone) reports
Listed(zone) == Range(mockGetRecords(db, zone).recs)

\* MockClientWrapper.createRecord
createRecord ==
    \E r \in SetupRequests :
        /\ hist = <<>>
        /\ TotalRecs < MaxMockRecs
        /\ LET out == mockCreateRecord(Backend, r)
           IN  /\ out.status = "ok"
               /\ db' = out.b.db
               /\ idToZone' = out.b.idToZone
        /\ UNCHANGED <<hist, fn>>

\* MockClientWrapper.updateRecord for a record listed in the zone of r
updateRecord ==
    \E r \in SetupRequests :
        /\ hist = <<>>
        /\ r.Domain \in DOMAIN db
        /\ \E rec \in Listed(r.Domain) :
              LET out == mockUpdateRecord(Backend, rec.ID, r)
              IN  /\ out.status = "ok"
                  /\ db' = out.b.db
                  /\ idToZone' = out.b.idToZone
        /\ UNCHANGED <<hist, fn>>

\* MockClientWrapper.deleteRecord for a record listed in a zone; fn keeps
\* the zone and the identifier of the last call
deleteRecord ==
    \E zone \in DOMAIN db :
        \E rec \in Listed(zone) :
            LET out == mockDeleteRecord(Backend, rec.ID)
            IN  /\ hist = <<>>
                /\ out.status # "panic"
                /\ db' = out.b.db
                /\ idToZone' = out.b.idToZone
                /\ fn' = [name |-> "deleteRecord",
                          in |-> [zone |-> zone, id |-> rec.ID],
                          done |-> TRUE, out |-> out.status]
                /\ UNCHANGED hist

NextMock == CreateZone \/ createRecord \/ updateRecord \/ deleteRecord \/ CallRecords

SpecMock == Init /\ [][NextMock]_vars

(***************************************************************************)
(* What Records returns                                                    *)
(***************************************************************************)
\* the records of the zones, deleted ones left out, zone after zone
RECURSIVE LiveListing(_, _, _)
LiveListing(d, zones, i) ==
    IF i > Len(zones) THEN <<>>
    ELSE SelectSeq(d[zones[i]], LAMBDA rec : rec.ID # DeletedID)
            \o LiveListing(d, zones, i + 1)

\* positions of the log at which login, getZones or getRecords failed
FailedReads(h) ==
    {i \in 1..Len(h.log) :
        h.log[i].op \in {"login", "getZones", "getRecords"} /\ ~h.log[i].ok}

\* C15: Records makes no mutating backend call; when login, getZones or a
\* getRecords call fails it returns an error and no endpoints, and the
\* failed call is followed by the logout only; otherwise it fetches the
\* zones in the order getZones listed them and returns one endpoint for
\* each record listed, zone after zone and record after record, with the
\* type and TTL of the record and its content as the only target
C15_RecordsListing ==
    \A k \in 1..Len(hist) :
        LET h == hist[k]
        IN  h.op = "Records" =>
              /\ \A i \in 1..Len(h.log) : h.log[i].op \notin Mutating
              /\ h.after = h.before
              /\ IF FailedReads(h) # {}
                 THEN /\ h.kind = "err"
                      /\ h.endpoints = <<>>
                      /\ \A i \in FailedReads(h) :
                            \A j \in (i + 1)..Len(h.log) : h.log[j].op = "logout"
                 ELSE /\ h.kind = "ok"
                      /\ SelectSeq(h.log, LAMBDA e : e.op = "getRecords")
                           = [i \in 1..Len(h.zorder) |-> h.log[i + 2]]
                      /\ \A i \in 1..Len(h.zorder) : h.log[i + 2].zone = h.zorder[i]
                      /\ [i \in 1..Len(h.endpoints) |->
                            <<h.endpoints[i].RecordType, h.endpoints[i].RecordTTL,
                              h.endpoints[i].Targets>>]
                           = [i \in 1..Len(LiveListing(h.before.db, h.zorder, 1)) |->
                                LET rec == LiveListing(h.before.db, h.zorder, 1)[i]
                                IN  <<rec.Type, rec.TTL, <<rec.Content>>>>]

\* Records lists two zones of which the first holds a deleted record and a
\* live one and the second a live one, and returns the two live records
C15_Witness ==
    \E k \in 1..Len(hist) :
        LET h == hist[k]
        IN  /\ h.op = "Records" /\ h.kind = "ok"
            /\ Len(h.zorder) = 2
            /\ Len(h.before.db[h.zorder[1]]) = 2
            /\ h.before.db[h.zorder[1]][1].ID = DeletedID
            /\ Len(h.before.db[h.zorder[2]]) = 1
            /\ Len(h.endpoints) = 2
            /\ h.endpoints[1].Targets # h.endpoints[2].Targets

(***************************************************************************)
(* Identifiers of the mock backend                                         *)
(***************************************************************************)
\* where the live records are: <<zone, index in the zone's list>>
LiveAt == {p \in (DOMAIN db) \X (1..TotalRecs) :
              p[2] <= Len(db[p[1]]) /\ db[p[1]][p[2]].ID # DeletedID}

UniqueLiveIDs ==
    \A p \in LiveAt, q \in LiveAt : db[p[1]][p[2]].ID = db[q[1]][q[2]].ID => p = q

\* a step that is a deleteRecord(id) call for a record listed in fn'.in.zone
\* marks that record as deleted and leaves the other zones as they are
DeleteMarksListed ==
    (/\ fn'.name = "deleteRecord"
     /\ (fn.name # "deleteRecord" \/ fn'.in # fn.in \/ fn'.out # fn.out)) =>
        /\ \A i \in 1..Len(db[fn'.in.zone]) :
              db[fn'.in.zone][i].ID = fn'.in.id => db'[fn'.in.zone][i].ID = DeletedID
        /\ \A z \in DOMAIN db : z # fn'.in.zone => db'[z] = db[z]

\* C16: in the mock backend no two live records share an identifier,
\* whatever zones they are in, and deleteRecord(id) marks as deleted the
\* record getRecords listed with that identifier in its zone and changes no
\* other zone
C16_BackendWideIdentifiers == []UniqueLiveIDs /\ [][DeleteMarksListed]_vars

(***************************************************************************)
(* The identifiers handed to deleteRecord and updateRecord                 *)
(***************************************************************************)
\* the deleteRecord and updateRecord calls of a call, sent or refused
IdentifiedCalls(h) ==
    SelectSeq(h.log, LAMBDA e : e.op \in {"deleteRecord", "updateRecord"})

\* the snapshot getRecIDs was given at position ix of a phase
SnapshotAt(h, ph, ix) ==
    LocsAt(h, ph, ix)[1].cache[getZone(h.zorder, ResolvedFrom(h, ph, ix).DNSName).zone]

\* C17: every deleteRecord and updateRecord call is made in the Delete or
\* the Update phase, for a Delete or an UpdateOld endpoint, and the
\* identifier it passes belongs, in the snapshot fetched for that phase and
\* the zone of that endpoint, to a record with the type and the
\* fully-qualified name of the endpoint and a content among its targets,
\* and to no other record; no such call is made for a Create endpoint
C17_OnlyLocatedIdentifiers ==
    \A k \in 1..Len(hist) :
        \A i \in 1..Len(IdentifiedCalls(hist[k])) :
            LET h  == hist[k]
                e  == IdentifiedCalls(h)[i]
                ep == ResolvedFrom(h, e.ph, e.ix)
            IN  /\ e.ph \in {"delete", "update"}
                /\ Len(LocsAt(h, e.ph, e.ix)) = 1
                /\ \E n \in 1..Len(SnapshotAt(h, e.ph, e.ix)) :
                      SnapshotAt(h, e.ph, e.ix)[n].ID = e.id
                /\ \A n \in 1..Len(SnapshotAt(h, e.ph, e.ix)) :
                      LET rec == SnapshotAt(h, e.ph, e.ix)[n]
                      IN  rec.ID = e.id =>
                            /\ rec.Type = ep.RecordType
                            /\ FullName(rec.Name,
                                        getZone(h.zorder, ep.DNSName).zone) = ep.DNSName
                            /\ rec.Content \in Range(ep.Targets)

\* one call deletes the record of its Delete endpoint, creates the record
\* of its Create endpoint and updates the record of its update pair
C17_Witness ==
    \E k \in 1..Len(hist) :
        LET h == hist[k]
        IN  /\ Len(h.changes.Delete) = 1 /\ Len(h.changes.Create) = 1
            /\ Len(h.changes.UpdateOld) = 1
            /\ \E i \in 1..Len(h.log) :
                  h.log[i].op = "deleteRecord" /\ h.log[i].ph = "delete" /\ h.log[i].ok
            /\ \E i \in 1..Len(h.log) :
                  h.log[i].op = "createRecord" /\ h.log[i].ph = "create" /\ h.log[i].ok
            /\ \E i \in 1..Len(h.log) :
                  h.log[i].op = "updateRecord" /\ h.log[i].ph = "update" /\ h.log[i].ok

(***************************************************************************)
(* The records left by a successful ApplyChanges                           *)
(***************************************************************************)
Key(ep) == <<ep.DNSName, ep.RecordType>>

\* where the live records of backend b are: <<zone, index>>
LiveIn(b) ==
    UNION {{<<z, n>> : n \in {n \in 1..Len(b.db[z]) : b.db[z][n].ID # DeletedID}} :
              z \in DOMAIN b.db}

\* the live record at p as (fully-qualified name, type, content)
TripleAt(b, p) ==
    <<FullName(b.db[p[1]][p[2]].Name, p[1]), b.db[p[1]][p[2]].Type,
      b.db[p[1]][p[2]].Content>>

\* how many live records of b read as the triple t
CountIn(b, t) == Cardinality({p \in LiveIn(b) : TripleAt(b, p) = t})

\* how many targets of the endpoints eps with the key of t are the content of t
CountTargets(eps, t) ==
    Cardinality(UNION {{<<i, j>> : j \in {j \in 1..Len(eps[i].Targets) :
                                            /\ Key(eps[i]) = <<t[1], t[2]>>
                                            /\ eps[i].Targets[j] = t[3]}} :
                          i \in 1..Len(eps)})

\* the endpoints that name existing records, and all entries of the ChangeSet
Replaced(cs) == cs.Delete \o cs.UpdateOld
Entries(cs) == cs.Delete \o cs.UpdateOld \o cs.Create

\* one zone, no two records alike, entries with pairwise different keys,
\* pairs that keep their key, Delete and UpdateOld endpoints listing the
\* contents of the records of their key once each, Create keys unused
CleanStart(h) ==
    /\ h.op = "ApplyChanges"
    /\ Cardinality(DOMAIN h.before.db) = 1
    /\ \A p \in LiveIn(h.before) : CountIn(h.before, TripleAt(h.before, p)) = 1
    /\ \A i \in 1..Len(Entries(h.changes)) :
          \A j \in 1..Len(Entries(h.changes)) :
              Key(Entries(h.changes)[i]) = Key(Entries(h.changes)[j]) => i = j
    /\ \A i \in 1..Len(h.changes.UpdateOld) :
          Key(h.changes.UpdateNew[i]) = Key(h.changes.UpdateOld[i])
    /\ \A i \in 1..Len(Replaced(h.changes)) :
          LET ep == Replaced(h.changes)[i]
          IN  /\ Cardinality(Range(ep.Targets)) = Len(ep.Targets)
              /\ Range(ep.Targets)
                   = {TripleAt(h.before, p)[3] :
                        p \in {q \in LiveIn(h.before) :
                                  <<TripleAt(h.before, q)[1], TripleAt(h.before, q)[2]>>
                                      = Key(ep)}}
    /\ \A i \in 1..Len(h.changes.Create) :
          \A p \in LiveIn(h.before) :
              <<TripleAt(h.before, p)[1], TripleAt(h.before, p)[2]>>
                  # Key(h.changes.Create[i])

\* the triples to look at: those of the records before and after the call
\* and those the Create and UpdateNew endpoints ask for
TriplesOf(h) ==
    {TripleAt(h.before, p) : p \in LiveIn(h.before)}
    \cup {TripleAt(h.after, p) : p \in LiveIn(h.after)}
    \cup UNION {{<<ep.DNSName, ep.RecordType, c>> : c \in Range(ep.Targets)} :
                   ep \in Range(h.changes.Create \o h.changes.UpdateNew)}

\* the records of the backend before the call that no Delete and no
\* UpdateOld endpoint names
Untouched(h, t) ==
    IF \E i \in 1..Len(Replaced(h.changes)) :
           Key(Replaced(h.changes)[i]) = <<t[1], t[2]>>
    THEN 0 ELSE CountIn(h.before, t)

\* C18: from a clean start, a successful ApplyChanges leaves as live
\* records, read as (fully-qualified name, type, content), the untouched
\* records, one record for each target of each Create endpoint and one for
\* each target of each UpdateNew endpoint, and nothing else
C18_ConvergesToChangeSet ==
    \A k \in 1..Len(hist) :
        (CleanStart(hist[k]) /\ hist[k].kind = "ok") =>
            \A t \in TriplesOf(hist[k]) :
                CountIn(hist[k].after, t)
                  = Untouched(hist[k], t)
                      + CountTargets(hist[k].changes.Create, t)
                      + CountTargets(hist[k].changes.UpdateNew, t)

====
